---- MODULE Spec2Model ----
(***************************************************************************)
(* Mini-SK (src/mini-sk.c): the combinator graph reducer.                  *)
(*                                                                         *)
(* The model is the portable build (atoms are 16-bit values, the high bit  *)
(* marks a node index) compiled with -DNDEBUG.  One run is one turn of     *)
(* main's loop: read_atom builds a term, reduce rewrites it, free_app_all  *)
(* releases the result.  The statistic `reductions` (an unbounded counter) *)
(* and max_apps are left out; they are never read by the engine.  Printing *)
(* is left out too: print_atom, and the reduce that print_atom_reduced     *)
(* applies to the argument of a node whose func is a raw datum.            *)
(***************************************************************************)
EXTENDS Integers, Sequences, FiniteSets, TLC

\* ---------------------------------------------------------------- bounds
MAX_APPS == 9            \* pool capacity (-DMAX_APPS)
MAX_STACK == 8           \* spine capacity (-DMAX_STACK)
MaxTermApps == 3         \* applications in a term of the general input family
MaxArgApps == 2          \* applications in the argument x of an input (((S f) g) x)
MaxChurch == 2           \* largest N of a Church numeral #N in an input
MaxOutput == 2           \* characters written before the output is no longer followed

\* ---------------------------------------------------------------- atoms
LIT_I == 256
LIT_K == 513
LIT_S == 770
LIT_B == 771
LIT_C == 772
LIT_Y == 261
LIT_P == 518
LIT_pl == 775
LIT_mi == 776
LIT_tm == 777
LIT_dv == 778
LIT_F == 523
LIT_J == 524
LIT_eq == 781
LIT_lt == 782
LIT_G == 271
NOT_REDUCED == 65535

IS_LIT(x) == x < 32768
INDEX_TO_ATOM(i) == i + 32768
\* the index NODE_FUNC / NODE_ARG / NODE_REFCOUNT use: (n) & 0x7fff
NODE(n) == n % 32768
LIT_REQARGS(l) == (l \div 256) % 256
LIT_SUBTYPE(l) == l % 256

\* raw data a term may hold: the placeholder 'a'
RawData == {97}
PureLits == {LIT_I, LIT_K, LIT_S, LIT_B, LIT_C, LIT_F, LIT_J, LIT_Y} \cup RawData

VARIABLES
    func, arg, refcount,   \* apps[0..MAX_APPS]
    app_freelist,
    current_apps,
    live,                  \* slots handed out by alloc_app and not yet given back by free_app
    pc,                    \* where main is: "parse", "reduce", "returned", "done",
                           \* or how the run ended early: "fatal", "overflow"
    input,                 \* what getch() has still to deliver, as tokens
    pstack,                \* read_atom's pending '@' frames and the atoms already read
    term,                  \* the term the input spells, as a tree
    red_stack,             \* red_stack[rs_top_ptr ..], top first
    curr, stack_len,       \* locals of the running reduce
    calls,                 \* the suspended activations of reduce, innermost first
    other_lit,
    output,                \* the characters putchar has written
    fired,                 \* the last step, if a rule: its redex and what it returned
    ret,                   \* the last step, if a return of reduce: the spine at its
                           \* entry, the spine it left, and its stack_len
    rs_entry,              \* the spine when the running reduce was entered
    entry                  \* the atom handed to reduce, whether reduce has rewritten
                           \* or called anything since, and whether that atom is
                           \* what an earlier reduce returned

vars == <<func, arg, refcount, app_freelist, current_apps, live, pc, input, pstack,
          term, red_stack, curr, stack_len, calls, other_lit, output, fired, ret,
          rs_entry, entry>>

\* ---------------------------------------------------------------- the heap
\* The heap operations are functions from heap to heap; `fatal` is set once
\* alloc_app has called exit(2), and nothing runs after that.
Heap == [func |-> func, arg |-> arg, refcount |-> refcount,
         app_freelist |-> app_freelist, current_apps |-> current_apps,
         live |-> live, fatal |-> FALSE]

SetHeap(h) ==
    /\ func' = h.func
    /\ arg' = h.arg
    /\ refcount' = h.refcount
    /\ app_freelist' = h.app_freelist
    /\ current_apps' = h.current_apps
    /\ live' = h.live

\* An operator that reads an argument in several places is given its
\* arguments as the elements of one-element sets: each is then a value,
\* worked out once.
The(S) == CHOOSE x \in S : TRUE

\* alloc_app without the test for the end of the free list
alloc_app_unchecked(heap0, func0, arg0) ==
    The({LET next_app == h.app_freelist IN
         IF h.fatal THEN [h |-> h, a |-> NOT_REDUCED]
         ELSE [h |-> [h EXCEPT !.app_freelist = h.func[NODE(next_app)],
                               !.func[NODE(next_app)] = f,
                               !.arg[NODE(next_app)] = a,
                               !.refcount[NODE(next_app)] = 1,
                               !.current_apps = (h.current_apps + 1) % 65536,
                               !.live = h.live \cup {NODE(next_app)}],
               a |-> next_app]
         : h \in {heap0}, f \in {func0}, a \in {arg0}})

alloc_app(heap0, func0, arg0) ==
    The({LET next_app == h.app_freelist IN
         IF h.fatal THEN [h |-> h, a |-> NOT_REDUCED]
         ELSE IF next_app = INDEX_TO_ATOM(MAX_APPS)
         THEN [h |-> [h EXCEPT !.fatal = TRUE], a |-> NOT_REDUCED]
         ELSE [h |-> [h EXCEPT !.app_freelist = h.func[NODE(next_app)],
                               !.func[NODE(next_app)] = f,
                               !.arg[NODE(next_app)] = a,
                               !.refcount[NODE(next_app)] = 1,
                               !.current_apps = (h.current_apps + 1) % 65536,
                               !.live = h.live \cup {NODE(next_app)}],
               a |-> next_app]
         : h \in {heap0}, f \in {func0}, a \in {arg0}})

\* free_app that does not link the node to the rest of the list
free_app_unlinked(heap0, app0) ==
    The({[h EXCEPT !.app_freelist = app,
                   !.current_apps = (h.current_apps + 65535) % 65536,
                   !.live = h.live \ {NODE(app)}]
         : h \in {heap0}, app \in {app0}})

free_app(heap0, app0) ==
    The({[h EXCEPT !.func[NODE(app)] = h.app_freelist,
                   !.app_freelist = app,
                   !.current_apps = (h.current_apps + 65535) % 65536,
                   !.live = h.live \ {NODE(app)}]
         : h \in {heap0}, app \in {app0}})

\* if (IS_LIT(app)) return 0; if (--NODE_REFCOUNT(app)) return 0;
\* free_app_all(NODE_ARG(app)); free_app_all(NODE_FUNC(app)); free_app(app); return 1;
RECURSIVE free_app_all(_, _)
free_app_all(heap0, app0) ==
    The({IF h.fatal \/ IS_LIT(app) THEN [h |-> h, freed |-> FALSE]
         ELSE The({IF h1.refcount[NODE(app)] # 0 THEN [h |-> h1, freed |-> FALSE]
                   ELSE The({[h |-> free_app(free_app_all(h2, h2.func[NODE(app)]).h, app),
                              freed |-> TRUE]
                             : h2 \in {free_app_all(h1, h1.arg[NODE(app)]).h}})
                   : h1 \in {[h EXCEPT !.refcount[NODE(app)] =
                                           (h.refcount[NODE(app)] + 65535) % 65536]}})
         : h \in {heap0}, app \in {app0}})

copy_atom(heap0, a0) ==
    The({IF h.fatal \/ IS_LIT(a) THEN h
         ELSE [h EXCEPT !.refcount[NODE(a)] = (h.refcount[NODE(a)] + 1) % 65536]
         : h \in {heap0}, a \in {a0}})

\* replace that turns orig into an indirection whatever its refcount
replace_kept(heap0, orig0, reduced0) ==
    The({[h |-> [h EXCEPT !.refcount[NODE(orig)] = (h.refcount[NODE(orig)] + 65535) % 65536,
                          !.func[NODE(orig)] = LIT_I,
                          !.arg[NODE(orig)] = reduced],
          a |-> reduced]
         : h \in {copy_atom(heap0, reduced0)}, orig \in {orig0}, reduced \in {reduced0}})

replace(heap0, orig0, reduced0) ==
    The({IF h.fatal THEN [h |-> h, a |-> reduced]
         ELSE The({IF r.freed THEN [h |-> r.h, a |-> reduced]
                   ELSE The({[h |-> [h3 EXCEPT !.func[NODE(orig)] = LIT_I,
                                               !.arg[NODE(orig)] = reduced],
                              a |-> reduced]
                             : h3 \in {The({free_app_all(h2, h2.arg[NODE(orig)]).h
                                            : h2 \in {The({free_app_all(h1, h1.func[NODE(orig)]).h
                                                           : h1 \in {copy_atom(r.h, reduced)}})}})}})
                   : r \in {free_app_all(h, orig)}})
         : h \in {heap0}, orig \in {orig0}, reduced \in {reduced0}})

\* ---------------------------------------------------------------- trees
\* A term as a tree: <<l>> is the literal l, <<f, a>> the application (f a).
Lit(l) == <<l>>
App(f, a) == <<f, a>>
IsApp(t) == Len(t) = 2

\* tokens of the input: AT is '@' (or '('), ChurchTok(n) is "#n", a literal is
\* the letter, quoted character or number that read_atom turns into it
AT == 0 - 1
ChurchTok(n) == 0 - (n + 2)
IsChurchTok(t) == t < AT
ChurchOf(t) == (0 - t) - 2

RECURSIVE Tokens(_)
Tokens(t) == IF IsApp(t) THEN <<AT>> \o Tokens(t[1]) \o Tokens(t[2]) ELSE t

\* the trees with exactly n applications over the leaves L; the application
\* (f a) is the pair <<f, a>>, so the applications of F to A are F \X A
RECURSIVE TermsN(_, _)
TermsN(n, L) ==
    IF n = 0 THEN {Lit(l) : l \in L}
    ELSE UNION {TermsN(i, L) \X TermsN(n - 1 - i, L) : i \in 0..(n - 1)}

Terms(n, L) == UNION {TermsN(i, L) : i \in 0..n}

\* the placeholder applied to n arguments: a spine of n applications
RECURSIVE LeftSpine(_)
LeftSpine(n) == IF n = 0 THEN Lit(97) ELSE App(LeftSpine(n - 1), Lit(97))

\* The inputs of the pure reducer: every term of at most MaxTermApps
\* applications; the terms (((S f) I) x), whose argument x becomes shared
\* between (f x) and (I x); the terms ((K x) (Y I)), whose second argument
\* has no normal form; the Church numerals, alone and applied; and a spine
\* one application deeper than red_stack.
ChurchToks == {ChurchTok(n) : n \in 0..MaxChurch}
Divergent == App(Lit(LIT_Y), Lit(LIT_I))
ConstTerms == ({Lit(LIT_K)} \X Terms(MaxArgApps, PureLits)) \X {Divergent}

PureTerms ==
    Terms(MaxTermApps, PureLits)
    \cup ((({Lit(LIT_S)} \X TermsN(0, PureLits)) \X {Lit(LIT_I)})
              \X Terms(MaxArgApps, PureLits))
    \cup ConstTerms
    \cup TermsN(0, ChurchToks)
    \cup ((TermsN(0, ChurchToks) \X TermsN(0, PureLits)) \X TermsN(0, PureLits))
    \cup {LeftSpine(MAX_STACK + 1)}

\* The inputs that use the primitives: (((op k) x) y) for a binary primitive
\* op with continuation k, ((P k) x), and (((S (op k)) I) x) whose operand
\* is shared; the operands x and y are literals or one application.
Numbers == {1, 32767}
BinOps == {LIT_pl, LIT_mi, LIT_tm, LIT_eq, LIT_lt}
Conts == {LIT_I, LIT_K} \cup Numbers
Operands == Terms(1, Numbers \cup {LIT_I, LIT_K})

PrimTerms ==
    (((TermsN(0, BinOps) \X TermsN(0, Conts)) \X Operands) \X Operands)
    \cup ((({Lit(LIT_S)} \X (TermsN(0, BinOps) \X TermsN(0, Conts))) \X {Lit(LIT_I)})
              \X Operands)
    \cup (({Lit(LIT_P)} \X TermsN(0, Conts)) \X Operands)

\* ---------------------------------------------------------------- init
\* init_apps, with the static arrays zeroed
InitHeap ==
    /\ func = [i \in 0..MAX_APPS |-> IF i < MAX_APPS THEN INDEX_TO_ATOM(i + 1) ELSE 0]
    /\ arg = [i \in 0..MAX_APPS |-> 0]
    /\ refcount = [i \in 0..MAX_APPS |-> 0]
    /\ app_freelist = INDEX_TO_ATOM(0)
    /\ current_apps = 0
    /\ live = {}

InitMain ==
    /\ pc = "parse"
    /\ input = Tokens(term)
    /\ pstack = <<>>
    /\ red_stack = <<>>
    /\ curr = 0
    /\ stack_len = 0
    /\ calls = <<>>
    /\ other_lit = 0
    /\ output = <<>>
    /\ fired = <<>>
    /\ ret = <<>>
    /\ rs_entry = <<>>
    /\ entry = [a |-> 0, stepped |-> FALSE, again |-> FALSE]

Init ==
    /\ term \in PureTerms
    /\ InitHeap
    /\ InitMain

\* ---------------------------------------------------------------- read_atom
\* read_atom is a recursive descent over a prefix term.  pstack holds, oldest
\* first, what its activations hold: AT for a '@' whose operands are still
\* being read, an atom for an operand already read.
Reducible(ps) ==
    /\ Len(ps) >= 3
    /\ ps[Len(ps)] # AT
    /\ ps[Len(ps) - 1] # AT
    /\ ps[Len(ps) - 2] = AT

Reading == pc = "parse" /\ ~Reducible(pstack) /\ input # <<>>

UnchangedHeap == UNCHANGED <<func, arg, refcount, app_freelist, current_apps, live>>
UnchangedReduce ==
    UNCHANGED <<red_stack, curr, stack_len, calls, other_lit, output, fired, ret,
                rs_entry, entry>>

\* exit(2) inside alloc_app: the heap is as the failing call left it
Fatal(h) ==
    /\ pc' = "fatal"
    /\ SetHeap(h)
    /\ UNCHANGED <<input, pstack, term, red_stack, curr, stack_len, calls, other_lit,
                   output, fired, ret, rs_entry, entry>>

\* case '(' / '@'
ReadAt ==
    /\ Reading
    /\ Head(input) = AT
    /\ input' = Tail(input)
    /\ pstack' = Append(pstack, AT)
    /\ UNCHANGED <<pc, term>>
    /\ UnchangedHeap
    /\ UnchangedReduce

\* a combinator letter, a placeholder, a quoted character or a number
ReadLit ==
    /\ Reading
    /\ Head(input) >= 0
    /\ input' = Tail(input)
    /\ pstack' = Append(pstack, Head(input))
    /\ UNCHANGED <<pc, term>>
    /\ UnchangedHeap
    /\ UnchangedReduce

RECURSIVE ChurchLoop(_, _, _, _, _)
ChurchLoop(h, single_succ, val, i, n) ==
    IF i >= n \/ h.fatal THEN [h |-> h, a |-> val]
    ELSE LET r == alloc_app(copy_atom(h, single_succ), single_succ, val)
         IN ChurchLoop(r.h, single_succ, r.a, i + 1, n)

\* case '#'
ChurchNumeral(h, n) ==
    LET r1 == alloc_app(h, LIT_S, LIT_B)
        r2 == alloc_app(r1.h, LIT_K, LIT_I)
        r3 == ChurchLoop(r2.h, r1.a, r2.a, 0, n)
    IN [h |-> free_app_all(r3.h, r1.a).h, a |-> r3.a]

ReadChurch ==
    /\ Reading
    /\ IsChurchTok(Head(input))
    /\ LET r == ChurchNumeral(Heap, ChurchOf(Head(input))) IN
       IF r.h.fatal THEN Fatal(r.h)
       ELSE /\ SetHeap(r.h)
            /\ input' = Tail(input)
            /\ pstack' = Append(pstack, r.a)
            /\ UNCHANGED <<pc, term>>
            /\ UnchangedReduce

\* return alloc_app(lhs, rhs)
ReadApp ==
    /\ pc = "parse"
    /\ Reducible(pstack)
    /\ LET n == Len(pstack)
           r == alloc_app(Heap, pstack[n - 1], pstack[n])
       IN IF r.h.fatal THEN Fatal(r.h)
          ELSE /\ SetHeap(r.h)
               /\ pstack' = Append(SubSeq(pstack, 1, n - 3), r.a)
               /\ UNCHANGED <<pc, input, term>>
               /\ UnchangedReduce

\* main: a = read_atom(); ... a = reduce(a);
StartReduce ==
    /\ pc = "parse"
    /\ input = <<>>
    /\ ~Reducible(pstack)
    /\ pc' = "reduce"
    /\ curr' = pstack[1]
    /\ stack_len' = 0
    /\ pstack' = <<>>
    /\ rs_entry' = red_stack
    /\ entry' = [a |-> pstack[1], stepped |-> FALSE, again |-> FALSE]
    /\ UNCHANGED <<input, term, red_stack, calls, other_lit, output, fired, ret>>
    /\ UnchangedHeap

\* ---------------------------------------------------------------- the rules
\* rs is the spine as the rule finds it: rs[i + 1] is rs_top_ptr[i]
red_ident(h, rs, c) == replace(copy_atom(h, h.arg[NODE(c)]), c, h.arg[NODE(c)])

\* red_const keeping its second argument
red_const_second(h, rs, c) == replace(copy_atom(h, h.arg[NODE(c)]), c, h.arg[NODE(c)])

\* red_const rewriting the node it returns
red_const_touch(h, rs, c) ==
    LET x == h.arg[NODE(rs[1])]
        h1 == IF IS_LIT(x) THEN h ELSE [h EXCEPT !.arg[NODE(x)] = LIT_I]
    IN replace(copy_atom(h1, x), c, x)

red_const(h, rs, c) ==
    LET x == h.arg[NODE(rs[1])] IN replace(copy_atom(h, x), c, x)

red_false(h, rs, c) == replace(copy_atom(h, h.arg[NODE(c)]), c, h.arg[NODE(c)])

\* red_jump building (x y)
red_jump_unflipped(h, rs, c) ==
    LET y == h.arg[NODE(c)]
        x == h.arg[NODE(rs[1])]
        xy == alloc_app(copy_atom(copy_atom(h, y), x), x, y)
    IN replace(xy.h, c, xy.a)

red_jump(h, rs, c) ==
    LET y == h.arg[NODE(c)]
        x == h.arg[NODE(rs[1])]
        yx == alloc_app(copy_atom(copy_atom(h, y), x), y, x)
    IN replace(yx.h, c, yx.a)

\* red_fusion building ((g x) (f x))
red_fusion_swapped(h, rs, c) ==
    LET fx == alloc_app(copy_atom(copy_atom(h, h.arg[NODE(rs[1])]), h.arg[NODE(c)]),
                        h.arg[NODE(rs[1])], h.arg[NODE(c)])
        h1 == fx.h
        gx == alloc_app(copy_atom(copy_atom(h1, h1.arg[NODE(rs[2])]), h1.arg[NODE(c)]),
                        h1.arg[NODE(rs[2])], h1.arg[NODE(c)])
        r == alloc_app(gx.h, gx.a, fx.a)
    IN replace(r.h, c, r.a)

red_fusion(h, rs, c) ==
    LET fx == alloc_app(copy_atom(copy_atom(h, h.arg[NODE(rs[1])]), h.arg[NODE(c)]),
                        h.arg[NODE(rs[1])], h.arg[NODE(c)])
        h1 == fx.h
        gx == alloc_app(copy_atom(copy_atom(h1, h1.arg[NODE(rs[2])]), h1.arg[NODE(c)]),
                        h1.arg[NODE(rs[2])], h1.arg[NODE(c)])
        r == alloc_app(gx.h, fx.a, gx.a)
    IN replace(r.h, c, r.a)

red_compose(h, rs, c) ==
    LET f == h.arg[NODE(rs[1])]
        h1 == copy_atom(h, f)
        gx == alloc_app(copy_atom(copy_atom(h1, h1.arg[NODE(rs[2])]), h1.arg[NODE(c)]),
                        h1.arg[NODE(rs[2])], h1.arg[NODE(c)])
        r == alloc_app(gx.h, f, gx.a)
    IN replace(r.h, c, r.a)

red_flip(h, rs, c) ==
    LET fy == alloc_app(copy_atom(copy_atom(h, h.arg[NODE(rs[1])]), h.arg[NODE(c)]),
                        h.arg[NODE(rs[1])], h.arg[NODE(c)])
        h1 == fy.h
        x == h1.arg[NODE(rs[2])]
        r == alloc_app(copy_atom(h1, x), fy.a, x)
    IN replace(r.h, c, r.a)

\* red_y retaining curr for the new node's arg
red_y_retained(h, rs, c) ==
    alloc_app(copy_atom(copy_atom(h, h.arg[NODE(c)]), c), h.arg[NODE(c)], c)

\* red_y as the rule its comment warns against
red_y_replaced(h, rs, c) ==
    LET r == alloc_app(copy_atom(copy_atom(h, h.arg[NODE(c)]), c), h.arg[NODE(c)], c)
    IN replace(r.h, c, r.a)

red_y(h, rs, c) == alloc_app(copy_atom(h, h.arg[NODE(c)]), h.arg[NODE(c)], c)

\* ---------------------------------------------------------------- reduce
Reducing == pc = "reduce"

UnchangedParse == UNCHANGED <<input, pstack, term>>

\* while (!IS_LIT(curr)) { ... --rs_top_ptr; *rs_top_ptr = curr; ++stack_len; curr = next; }
\* With MAX_STACK entries on the spine the store goes below red_stack[0],
\* which is undefined: either the run ends there ("overflow"), or the store
\* lands in memory nothing else uses and the spine goes on, longer than the
\* array.
Down ==
    /\ Reducing
    /\ ~IS_LIT(curr)
    /\ func[NODE(curr)] # LIT_I
    /\ \/ /\ Len(red_stack) >= MAX_STACK
          /\ pc' = "overflow"
          /\ UNCHANGED <<red_stack, curr, stack_len>>
       \/ /\ red_stack' = <<curr>> \o red_stack
          /\ stack_len' = stack_len + 1
          /\ curr' = func[NODE(curr)]
          /\ UNCHANGED pc
    /\ fired' = <<>>
    /\ ret' = <<>>
    /\ UNCHANGED <<calls, other_lit, entry, rs_entry, output>>
    /\ UnchangedParse
    /\ UnchangedHeap

\* do { next = NODE_ARG(next); } while (!IS_LIT(next) && NODE_FUNC(next) == I);
RECURSIVE ChainEnd(_, _)
ChainEnd(h, n) ==
    LET next == h.arg[NODE(n)] IN
    IF ~IS_LIT(next) /\ h.func[NODE(next)] = LIT_I THEN ChainEnd(h, next) ELSE next

\* the short-circuit that releases no chain node
Splice_kept(h, c, next) == [h |-> copy_atom(h, next), a |-> next]

\* do { copy_atom(next); if (free_app_all(curr)) { curr = next; break; } ... } while (...)
RECURSIVE Splice(_, _, _)
Splice(h, c, next) ==
    LET r == free_app_all(copy_atom(h, next), c) IN
    IF r.freed THEN [h |-> r.h, a |-> next]
    ELSE LET temp == r.h.arg[NODE(c)]
             h2 == [r.h EXCEPT !.arg[NODE(c)] = next]
         IN IF ~IS_LIT(temp) /\ h2.func[NODE(temp)] = LIT_I
            THEN Splice(h2, temp, next)
            ELSE [h |-> h2, a |-> temp]

\* if (next == LIT_I) { ... if (stack_len > 0) NODE_FUNC(*rs_top_ptr) = curr; continue; }
IChain ==
    /\ Reducing
    /\ ~IS_LIT(curr)
    /\ func[NODE(curr)] = LIT_I
    /\ LET r == Splice(Heap, curr, ChainEnd(Heap, curr))
           h2 == IF stack_len > 0 THEN [r.h EXCEPT !.func[NODE(red_stack[1])] = r.a] ELSE r.h
       IN /\ SetHeap(h2)
          /\ curr' = r.a
    /\ fired' = <<>>
    /\ ret' = <<>>
    /\ entry' = [entry EXCEPT !.stepped = TRUE]
    /\ UNCHANGED <<pc, red_stack, stack_len, calls, other_lit, rs_entry, output>>
    /\ UnchangedParse

\* what the redex rooted at c holds, read off the redex itself:
\* its last, its second-last and its third-last argument
RedexArgs(c) ==
    LET n1 == func[NODE(c)]
        n2 == IF IS_LIT(n1) THEN n1 ELSE func[NODE(n1)]
    IN <<arg[NODE(c)],
         IF IS_LIT(n1) THEN NOT_REDUCED ELSE arg[NODE(n1)],
         IF IS_LIT(n2) THEN NOT_REDUCED ELSE arg[NODE(n2)]>>

\* reqargs = LIT_REQARGS(curr); if (reqargs == 0) goto not_reduced;
\* if (reqargs <= stack_len) { subtype = LIT_SUBTYPE(curr); ... reducers[subtype] ... }
Firing(subtype) ==
    /\ Reducing
    /\ IS_LIT(curr)
    /\ LIT_REQARGS(curr) # 0
    /\ LIT_REQARGS(curr) <= stack_len
    /\ LIT_SUBTYPE(curr) = subtype

\* curr = rs_top_ptr[reqargs-1];
Root == red_stack[LIT_REQARGS(curr)]

\* the end of a rule that leaves the func of the entry below the redex as it was
Fired_unlinked(r, lit, rs, sl, info) ==
    LET reqargs == LIT_REQARGS(lit)
        rest == SubSeq(rs, reqargs + 1, Len(rs))
    IN IF r.h.fatal
       THEN /\ pc' = "fatal"
            /\ SetHeap(r.h)
            /\ UNCHANGED <<red_stack, curr, stack_len, fired, entry>>
       ELSE /\ SetHeap(r.h)
            /\ red_stack' = rest
            /\ stack_len' = sl - reqargs
            /\ curr' = r.a
            /\ fired' = info
            /\ entry' = [entry EXCEPT !.stepped = TRUE]
            /\ UNCHANGED pc

\* The end of a rule that returned r.a, fired for the head literal lit with
\* the spine rs and sl entries of this activation on it:
\* rs_top_ptr += reqargs; stack_len -= reqargs;
\* if (stack_len > 0) NODE_FUNC(*rs_top_ptr) = curr; goto again;
Fired(r, lit, rs, sl, info) ==
    LET reqargs == LIT_REQARGS(lit)
        rest == SubSeq(rs, reqargs + 1, Len(rs))
        h2 == IF sl - reqargs > 0 THEN [r.h EXCEPT !.func[NODE(rest[1])] = r.a] ELSE r.h
    IN IF r.h.fatal
       THEN /\ pc' = "fatal"
            /\ SetHeap(r.h)
            /\ UNCHANGED <<red_stack, curr, stack_len, fired, entry>>
       ELSE /\ SetHeap(h2)
            /\ red_stack' = rest
            /\ stack_len' = sl - reqargs
            /\ curr' = r.a
            /\ fired' = info
            /\ entry' = [entry EXCEPT !.stepped = TRUE]
            /\ UNCHANGED pc

\* a rule that calls nothing but the heap
Fire(r) ==
    /\ Fired(r, curr, red_stack, stack_len,
             [subtype |-> LIT_SUBTYPE(curr), root |-> Root, args |-> RedexArgs(Root),
              res |-> r.a, rc |-> refcount[NODE(Root)]])
    /\ ret' = <<>>
    /\ UNCHANGED <<calls, other_lit, rs_entry, output>>
    /\ UnchangedParse

FireI ==
    /\ Firing(0)
    /\ Fire(red_ident(Heap, red_stack, Root))

FireK ==
    /\ Firing(1)
    /\ Fire(red_const(Heap, red_stack, Root))

FireS ==
    /\ Firing(2)
    /\ Fire(red_fusion(Heap, red_stack, Root))

FireB ==
    /\ Firing(3)
    /\ Fire(red_compose(Heap, red_stack, Root))

FireC ==
    /\ Firing(4)
    /\ Fire(red_flip(Heap, red_stack, Root))

FireY ==
    /\ Firing(5)
    /\ Fire(red_y(Heap, red_stack, Root))

FireF ==
    /\ Firing(11)
    /\ Fire(red_false(Heap, red_stack, Root))

FireJ ==
    /\ Firing(12)
    /\ Fire(red_jump(Heap, red_stack, Root))

\* not_reduced: if (stack_len == 0) return curr;
\*              rs_top_ptr += stack_len; return *(rs_top_ptr - 1);
NotReduced ==
    /\ Reducing
    /\ IS_LIT(curr)
    /\ LIT_REQARGS(curr) = 0 \/ LIT_REQARGS(curr) > stack_len

\* a return of the top entry of the spine
ResultTop == IF stack_len = 0 THEN curr ELSE red_stack[1]

Result == IF stack_len = 0 THEN curr ELSE red_stack[stack_len]

\* a return that leaves its entries on the spine
PoppedNone == red_stack

\* rs_top_ptr += stack_len
Popped == SubSeq(red_stack, stack_len + 1, Len(red_stack))

\* the return to main
Return ==
    /\ NotReduced
    /\ calls = <<>>
    /\ curr' = Result
    /\ red_stack' = Popped
    /\ stack_len' = 0
    /\ pc' = "returned"
    /\ fired' = <<>>
    /\ ret' = <<rs_entry, Popped, stack_len>>
    /\ UNCHANGED <<calls, other_lit, entry, rs_entry, output>>
    /\ UnchangedParse
    /\ UnchangedHeap

\* ---------------------------------------------------------------- primitives
\* A primitive calls reduce on an operand.  The caller's activation waits in
\* calls: its head literal, its redex root, its stack_len, where it waits
\* ("lhs", "rhs" in eval_two_lits, "put" in red_putchar), and reduced_lhs.
Call(phase, operand) ==
    /\ calls' = <<[lit |-> curr, root |-> Root, stack_len |-> stack_len, phase |-> phase,
                   reduced_lhs |-> 0, rs_entry |-> rs_entry]>> \o calls
    /\ curr' = operand
    /\ stack_len' = 0
    /\ rs_entry' = red_stack
    /\ fired' = <<>>
    /\ ret' = <<>>
    /\ entry' = [entry EXCEPT !.stepped = TRUE]
    /\ UNCHANGED <<pc, red_stack, other_lit, output>>
    /\ UnchangedParse
    /\ UnchangedHeap

\* eval_two_lits: atom reduced_lhs = reduce(NODE_ARG(rs_top_ptr[1]));
FirePlus ==
    /\ Firing(7)
    /\ Call("lhs", arg[NODE(red_stack[2])])

FireMinus ==
    /\ Firing(8)
    /\ Call("lhs", arg[NODE(red_stack[2])])

FireTimes ==
    /\ Firing(9)
    /\ Call("lhs", arg[NODE(red_stack[2])])

FireEq ==
    /\ Firing(13)
    /\ Call("lhs", arg[NODE(red_stack[2])])

FireLt ==
    /\ Firing(14)
    /\ Call("lhs", arg[NODE(red_stack[2])])

\* red_putchar: atom reduced = reduce(NODE_ARG(curr));
FireP ==
    /\ Firing(6)
    /\ Len(output) < MaxOutput
    /\ Call("put", arg[NODE(Root)])

Returning(phase) ==
    /\ NotReduced
    /\ calls # <<>>
    /\ Head(calls).phase = phase

\* the fallback of eval_two_lits taken to be 1
LitOrOne(a) == IF IS_LIT(a) THEN a ELSE 1

LitOrZero(a) == IF IS_LIT(a) THEN a ELSE 0

\* eval_two_lits, after the first reduce:
\* NODE_ARG(rs_top_ptr[1]) = reduced_lhs; other_lit = ...; reduce(NODE_ARG(curr));
ReturnLhs ==
    /\ Returning("lhs")
    /\ LET f == Head(calls)
           h == [Heap EXCEPT !.arg[NODE(Popped[2])] = Result]
       IN /\ SetHeap(h)
          /\ other_lit' = LitOrZero(Result)
          /\ calls' = <<[f EXCEPT !.phase = "rhs", !.reduced_lhs = Result]>> \o Tail(calls)
          /\ curr' = h.arg[NODE(f.root)]
    /\ stack_len' = 0
    /\ red_stack' = Popped
    /\ rs_entry' = Popped
    /\ fired' = <<>>
    /\ ret' = <<rs_entry, Popped, stack_len>>
    /\ UNCHANGED <<pc, output, entry>>
    /\ UnchangedParse

\* the result literal with the operands taken the other way round
ArithResultSwapped(subtype, lhs_lit, rhs_lit) ==
    CASE subtype = 7 -> (rhs_lit + lhs_lit) % 32768
      [] subtype = 8 -> (rhs_lit - lhs_lit) % 32768
      [] subtype = 9 -> (rhs_lit * lhs_lit) % 32768
      [] subtype = 13 -> IF rhs_lit = lhs_lit THEN LIT_K ELSE LIT_F
      [] subtype = 14 -> IF rhs_lit < lhs_lit THEN LIT_K ELSE LIT_F

\* the result literal of red_plus .. red_lt
ArithResult(subtype, lhs_lit, rhs_lit) ==
    CASE subtype = 7 -> (lhs_lit + rhs_lit) % 32768
      [] subtype = 8 -> (lhs_lit - rhs_lit) % 32768
      [] subtype = 9 -> (lhs_lit * rhs_lit) % 32768
      [] subtype = 13 -> IF lhs_lit = rhs_lit THEN LIT_K ELSE LIT_F
      [] subtype = 14 -> IF lhs_lit < rhs_lit THEN LIT_K ELSE LIT_F

builtin_2c_result(h, rs, result) ==
    LET arg0 == h.arg[NODE(rs[1])] IN
    IF arg0 = LIT_I THEN replace(h, rs[3], result)
    ELSE LET r == alloc_app(copy_atom(h, arg0), arg0, result)
         IN replace(r.h, rs[3], r.a)

\* eval_two_lits, after the second reduce: NODE_ARG(curr) = reduced_lhs;
\* return IS_LIT(reduced_rhs) ? ATOM_TO_LIT(reduced_rhs) : 0;
eval_two_lits_end(h, c, reduced_lhs) == [h EXCEPT !.arg[NODE(c)] = reduced_lhs]

\* ... then red_plus .. red_lt: return builtin_2c_result(LIT_TO_ATOM(...));
ReturnRhs ==
    /\ Returning("rhs")
    /\ LET f == Head(calls)
           h == eval_two_lits_end(Heap, f.root, f.reduced_lhs)
           result == ArithResult(LIT_SUBTYPE(f.lit), other_lit, LitOrZero(Result))
           r == builtin_2c_result(h, Popped, result)
       IN /\ Fired(r, f.lit, Popped, f.stack_len,
                   [subtype |-> LIT_SUBTYPE(f.lit), root |-> f.root,
                    args |-> <<other_lit, LitOrZero(Result), h.arg[NODE(Popped[1])]>>,
                    res |-> r.a, rc |-> refcount[NODE(f.root)]])
          /\ IF r.h.fatal THEN UNCHANGED <<calls, rs_entry>>
             ELSE calls' = Tail(calls) /\ rs_entry' = f.rs_entry
    /\ ret' = <<rs_entry, Popped, stack_len>>
    /\ UNCHANGED <<other_lit, output>>
    /\ UnchangedParse

\* red_putchar returning the operand it reduced
red_putchar_end_operand(h, rs, c, reduced) ==
    LET h1 == [h EXCEPT !.arg[NODE(c)] = reduced]
    IN replace(copy_atom(h1, reduced), c, reduced)

\* red_putchar, after its reduce: NODE_ARG(curr) = reduced; putchar(...);
\* return replace(curr, copy_atom(NODE_ARG(rs_top_ptr[0])));
red_putchar_end(h, rs, c, reduced) ==
    LET h1 == [h EXCEPT !.arg[NODE(c)] = reduced]
        k == h1.arg[NODE(rs[1])]
    IN replace(copy_atom(h1, k), c, k)

ReturnPut ==
    /\ Returning("put")
    /\ LET f == Head(calls)
           r == red_putchar_end(Heap, Popped, f.root, Result)
       IN /\ Fired(r, f.lit, Popped, f.stack_len,
                   [subtype |-> LIT_SUBTYPE(f.lit), root |-> f.root,
                    args |-> <<Result>>, res |-> r.a, rc |-> refcount[NODE(f.root)]])
          /\ calls' = Tail(calls)
          /\ rs_entry' = f.rs_entry
    /\ output' = Append(output, IF IS_LIT(Result) THEN LIT_SUBTYPE(Result) ELSE 42)
    /\ ret' = <<rs_entry, Popped, stack_len>>
    /\ UNCHANGED other_lit
    /\ UnchangedParse

\* main: free_app_all(a);
Release ==
    /\ pc = "returned"
    /\ SetHeap(free_app_all(Heap, curr).h)
    /\ pc' = "done"
    /\ UNCHANGED <<red_stack, curr, stack_len, calls, other_lit, fired, entry, ret,
                   rs_entry, output>>
    /\ UnchangedParse

Next ==
    \/ ReadAt
    \/ ReadLit
    \/ ReadChurch
    \/ ReadApp
    \/ StartReduce
    \/ Down
    \/ IChain
    \/ FireI
    \/ FireK
    \/ FireS
    \/ FireB
    \/ FireC
    \/ FireY
    \/ FireF
    \/ FireJ
    \/ Return
    \/ Release

Spec == Init /\ [][Next]_vars

\* The reducer with its primitives, on the inputs of both families.
InitAll ==
    /\ term \in PureTerms \cup PrimTerms
    /\ InitHeap
    /\ InitMain

NextAll ==
    \/ Next
    \/ FirePlus
    \/ FireMinus
    \/ FireTimes
    \/ FireEq
    \/ FireLt
    \/ FireP
    \/ ReturnLhs
    \/ ReturnRhs
    \/ ReturnPut

SpecAll == InitAll /\ [][NextAll]_vars

\* reduce applied once more, to the atom it returned
Again ==
    /\ pc = "returned"
    /\ ~entry.again
    /\ pc' = "reduce"
    /\ stack_len' = 0
    /\ rs_entry' = red_stack
    /\ entry' = [a |-> curr, stepped |-> FALSE, again |-> TRUE]
    /\ fired' = <<>>
    /\ ret' = <<>>
    /\ UNCHANGED <<curr, red_stack, calls, other_lit, output>>
    /\ UnchangedParse
    /\ UnchangedHeap

NextTwice ==
    \/ NextAll
    \/ Again

SpecTwice == InitAll /\ [][NextTwice]_vars

\* The pure reducer as it runs: the program is sequential, so a step that
\* can be taken is taken.  The inputs are the terms of one application less
\* than MaxTermApps allows, the saturated S, B and C redexes over literals,
\* and the families of PureTerms that are not sized by MaxTermApps.
FairTerms ==
    Terms(MaxTermApps - 1, PureLits)
    \cup ((TermsN(0, {LIT_S, LIT_B, LIT_C}) \X TermsN(0, PureLits))
              \X TermsN(0, PureLits)) \X TermsN(0, PureLits)
    \cup ConstTerms
    \cup TermsN(0, ChurchToks)
    \cup ((TermsN(0, ChurchToks) \X TermsN(0, PureLits)) \X TermsN(0, PureLits))
    \cup {LeftSpine(MAX_STACK + 1)}

InitFair ==
    /\ term \in FairTerms
    /\ InitHeap
    /\ InitMain

SpecFair == InitFair /\ [][Next]_vars /\ WF_vars(Next)

\* ---------------------------------------------------------------- properties
Count(seq, a) == Cardinality({i \in DOMAIN seq : seq[i] = a})

\* the func and arg fields of live nodes that hold a reference to slot n
FieldRefs(n) ==
    Cardinality({m \in live : func[m] = INDEX_TO_ATOM(n)})
    + Cardinality({m \in live : arg[m] = INDEX_TO_ATOM(n)})

\* the atom the running reduce will return if no further rule fires
WillReturn == IF stack_len = 0 THEN curr ELSE red_stack[stack_len]

\* the owning references held outside the heap
Owned ==
    CASE pc = "parse" -> pstack
      [] pc = "reduce" -> <<WillReturn>>
      [] pc = "returned" -> <<curr>>
      [] OTHER -> <<>>

\* C1: between the steps of a reduction over I, K, S, B, C, F, J, Y and raw
\* data, the refcount of every live node is the number of func and arg fields
\* of live nodes that refer to it plus the owning references outside the heap
\* (the atom reduce was handed or will return); spine entries do not count.
C1_RefcountSound ==
    pc \in {"reduce", "returned"} =>
        \A n \in live : refcount[n] = FieldRefs(n) + Count(Owned, INDEX_TO_ATOM(n))

\* a rule has just fired on a redex that other references share, and replace
\* has turned the redex root into an indirection to the reduct
C1_Witness ==
    /\ pc = "reduce"
    /\ fired # <<>>
    /\ fired.rc >= 2
    /\ NODE(fired.root) \in live
    /\ func[NODE(fired.root)] = LIT_I
    /\ arg[NODE(fired.root)] = fired.res
    /\ C1_RefcountSound

\* the slots the func and arg of slot n refer to
Children(n) == {NODE(a) : a \in {x \in {func[n], arg[n]} : ~IS_LIT(x)}}

\* remove, again and again, the slots of S with no child in S
RECURSIVE Peel(_)
Peel(S) ==
    LET leaves == {n \in S : Children(n) \cap S = {}}
    IN IF leaves = {} THEN S ELSE Peel(S \ leaves)

\* C2: in every state of parsing and reduction no live node reaches itself
\* along func and arg fields.
C2_NoCycles == Peel(live) = {}

\* the Y rule has fired below an application, whose func is now the new node
\* (f (Y f)) that refers to the redex
C2_Witness ==
    /\ pc = "reduce"
    /\ fired # <<>>
    /\ fired.subtype = 5
    /\ stack_len > 0
    /\ func[NODE(red_stack[1])] = fired.res
    /\ arg[NODE(fired.res)] = fired.root
    /\ C2_NoCycles

\* the slots met by following func from a, with Broken added if the walk
\* leaves the pool or meets a slot twice
Broken == 0 - 1

RECURSIVE FreeWalk(_, _)
FreeWalk(a, seen) ==
    IF a = INDEX_TO_ATOM(MAX_APPS) THEN seen
    ELSE IF IS_LIT(a) \/ NODE(a) > MAX_APPS \/ NODE(a) \in seen THEN seen \cup {Broken}
    ELSE FreeWalk(func[NODE(a)], seen \cup {NODE(a)})

FreeSet == FreeWalk(app_freelist, {})

\* C3: following func from app_freelist meets every free slot once and ends
\* at the sentinel; every slot of the pool is either on that list or live,
\* never both and never neither.
C3_FreeListClosure ==
    /\ Broken \notin FreeSet
    /\ FreeSet \cap live = {}
    /\ FreeSet \cup live = 0..(MAX_APPS - 1)

\* a term was built, reduced and released: the pool is free again, threaded
\* in another order than init_apps left it
C3_Witness ==
    /\ pc = "done"
    /\ entry.stepped
    /\ live = {}
    /\ \E n \in FreeSet : func[n] # INDEX_TO_ATOM(n + 1)
    /\ C3_FreeListClosure

\* C9: a reduce that returns leaves the spine as it was when it was entered,
\* whether main called it or a primitive did with its own entries on the
\* spine; a call from main starts and ends with an empty spine.
C9_SpineRestored ==
    /\ ret # <<>> => ret[1] = ret[2]
    /\ (pc = "reduce" /\ calls = <<>>) => rs_entry = <<>>
    /\ pc \in {"returned", "done"} => red_stack = <<>>

\* a reduce called by a primitive returned after pushing entries of its own
\* above the entries of its caller
C9_Witness ==
    /\ ret # <<>>
    /\ Len(ret[1]) >= 2
    /\ ret[3] > 0
    /\ ret[1] = ret[2]

\* C10: alloc_app called with the free list at the sentinel ends the run and
\* writes no node; it never hands out the sentinel slot, nor a slot that is
\* live.
C10_Exhaustion ==
    /\ pc = "fatal" => app_freelist = INDEX_TO_ATOM(MAX_APPS) /\ live = 0..(MAX_APPS - 1)
    /\ MAX_APPS \notin live
    /\ func[MAX_APPS] = 0 /\ arg[MAX_APPS] = 0 /\ refcount[MAX_APPS] = 0
    /\ current_apps = Cardinality(live)

\* the pool ran out during a rule
C10_Witness ==
    /\ pc = "fatal"
    /\ entry.stepped
    /\ app_freelist = INDEX_TO_ATOM(MAX_APPS)

\* ------------------------------------------------- the rules on trees
\* The rewrite rules of the header comment, with Y, F and J, applied to
\* trees by a leftmost-outermost rewriter.
MaxSteps == 30           \* head steps the tree rewriter is given

\* the tree the parser's input spells: "#n" is n times (S B) applied to (K I)
RECURSIVE ChurchTree(_)
ChurchTree(n) ==
    IF n = 0 THEN App(Lit(LIT_K), Lit(LIT_I))
    ELSE App(App(Lit(LIT_S), Lit(LIT_B)), ChurchTree(n - 1))

RECURSIVE Expand(_)
Expand(t) ==
    IF IsApp(t) THEN App(Expand(t[1]), Expand(t[2]))
    ELSE IF IsChurchTok(t[1]) THEN ChurchTree(ChurchOf(t[1]))
    ELSE t

\* <<head, a1, .., an>> of (..((head a1) a2) .. an), and back
RECURSIVE Spine(_)
Spine(t) == IF IsApp(t) THEN Append(Spine(t[1]), t[2]) ELSE <<t>>

RECURSIVE Rebuild(_)
Rebuild(s) ==
    IF Len(s) = 1 THEN s[1]
    ELSE App(Rebuild(SubSeq(s, 1, Len(s) - 1)), s[Len(s)])

Contract(l, a) ==
    CASE l = LIT_I -> a[1]
      [] l = LIT_K -> a[1]
      [] l = LIT_F -> a[2]
      [] l = LIT_J -> App(a[2], a[1])
      [] l = LIT_S -> App(App(a[1], a[3]), App(a[2], a[3]))
      [] l = LIT_B -> App(a[1], App(a[2], a[3]))
      [] l = LIT_C -> App(App(a[1], a[3]), a[2])
      [] l = LIT_Y -> App(a[1], App(Lit(LIT_Y), a[1]))

IsWhnf(t) ==
    LET s == Spine(t)
        reqargs == LIT_REQARGS(s[1][1])
    IN reqargs = 0 \/ Len(s) - 1 < reqargs

HeadStep(t) ==
    LET s == Spine(t)
        reqargs == LIT_REQARGS(s[1][1])
    IN Rebuild(<<Contract(s[1][1], SubSeq(s, 2, reqargs + 1))>>
               \o SubSeq(s, reqargs + 2, Len(s)))

Diverged == <<>>

RECURSIVE Whnf(_, _)
Whnf(t, fuel) ==
    IF IsWhnf(t) THEN t
    ELSE IF fuel = 0 THEN Diverged
    ELSE Whnf(HeadStep(t), fuel - 1)

\* a tree with its applications of I taken out
RECURSIVE StripI(_)
StripI(t) ==
    IF ~IsApp(t) THEN t
    ELSE IF t[1] = Lit(LIT_I) THEN StripI(t[2])
    ELSE App(StripI(t[1]), StripI(t[2]))

\* the graph below an atom as a tree: as it is, and with sharing expanded
\* and the indirection nodes (I x) taken out
RECURSIVE RawTree(_)
RawTree(a) ==
    IF IS_LIT(a) THEN Lit(a)
    ELSE App(RawTree(func[NODE(a)]), RawTree(arg[NODE(a)]))

RECURSIVE Unfold(_)
Unfold(a) ==
    IF IS_LIT(a) THEN Lit(a)
    ELSE IF func[NODE(a)] = LIT_I THEN Unfold(arg[NODE(a)])
    ELSE App(Unfold(func[NODE(a)]), Unfold(arg[NODE(a)]))

\* u rewrites to g by head steps of u and of subterms of u, at most k deep,
\* applications of I apart
RECURSIVE Rewrites(_, _, _)
Rewrites(u, g, k) ==
    \/ StripI(u) = g
    \/ /\ IsApp(u)
       /\ IsApp(g)
       /\ Rewrites(u[1], g[1], k)
       /\ Rewrites(u[2], g[2], k)
    \/ /\ k > 0
       /\ ~IsWhnf(u)
       /\ Rewrites(HeadStep(u), g, k - 1)

Reference == Whnf(Expand(term), MaxSteps)
HasWhnf == Reference # Diverged

\* a tree with every application of I rewritten, innermost first
RECURSIVE NormI(_)
NormI(t) ==
    IF ~IsApp(t) THEN t
    ELSE IF NormI(t[1]) = Lit(LIT_I) THEN NormI(t[2])
    ELSE App(NormI(t[1]), NormI(t[2]))

\* C4, as stated: the atom reduce returns, unfolded, is the tree the
\* leftmost-outermost rewriter ends with, applications of I apart.
C4_AsStated ==
    (pc = "returned" /\ HasWhnf) => NormI(Unfold(curr)) = NormI(Reference)

\* C4: when reduce returns, the rewriter ends too, and the atom returned,
\* unfolded, is its result with some arguments rewritten further: a shared
\* argument that was reduced once shows reduced wherever it occurs.
C4_ReductionLaw ==
    pc = "returned" =>
        /\ HasWhnf
        /\ Rewrites(Reference, Unfold(curr), MaxSteps)
        /\ IsWhnf(Unfold(curr))

\* the result holds an argument that the graph reduced and the tree did not
C4_Witness ==
    /\ pc = "returned"
    /\ entry.stepped
    /\ HasWhnf
    /\ NormI(Unfold(curr)) # NormI(Reference)
    /\ Rewrites(Reference, Unfold(curr), MaxSteps)

\* the node r is live and is the application (f a)
IsNode(r, f, a) ==
    /\ ~IS_LIT(r)
    /\ NODE(r) \in live
    /\ func[NODE(r)] = f
    /\ arg[NODE(r)] = a

\* C5: after a rule fired, the atom it returned is built from the arguments
\* its redex held: I x -> x, K x y -> x, F x y -> y, J x y -> (y x),
\* S f g x -> ((f x) (g x)), B f g x -> (f (g x)), C f x y -> ((f y) x),
\* every argument the same atom as in the redex.
C5_RuleShapes ==
    (pc = "reduce" /\ fired # <<>>) =>
        LET a1 == fired.args[1]
            a2 == fired.args[2]
            a3 == fired.args[3]
            r == fired.res
        IN CASE fired.subtype = 0 -> r = a1
             [] fired.subtype = 1 -> r = a2
             [] fired.subtype = 11 -> r = a1
             [] fired.subtype = 12 -> IsNode(r, a1, a2)
             [] fired.subtype = 2 ->
                    /\ ~IS_LIT(r)
                    /\ NODE(r) \in live
                    /\ IsNode(func[NODE(r)], a3, a1)
                    /\ IsNode(arg[NODE(r)], a2, a1)
             [] fired.subtype = 3 ->
                    /\ ~IS_LIT(r)
                    /\ NODE(r) \in live
                    /\ func[NODE(r)] = a3
                    /\ IsNode(arg[NODE(r)], a2, a1)
             [] fired.subtype = 4 ->
                    /\ ~IS_LIT(r)
                    /\ NODE(r) \in live
                    /\ IsNode(func[NODE(r)], a3, a1)
                    /\ arg[NODE(r)] = a2
             [] OTHER -> TRUE

\* S fired on a redex whose x is a node: both halves of the result hold it
C5_Witness ==
    /\ pc = "reduce"
    /\ fired # <<>>
    /\ fired.subtype = 2
    /\ ~IS_LIT(fired.args[1])
    /\ refcount[NODE(fired.args[1])] >= 2
    /\ arg[NODE(func[NODE(fired.res)])] = arg[NODE(arg[NODE(fired.res)])]
    /\ C5_RuleShapes

\* the term (((op x1) x2) x3) over literals
PrimTerm(op, x1, x2, x3) == App(App(App(Lit(op), Lit(x1)), Lit(x2)), Lit(x3))
ArithOps == {LIT_pl, LIT_mi, LIT_tm}
Operators == Numbers \cup {LIT_I, LIT_K}
Expected(op, a, b) ==
    CASE op = LIT_pl -> (a + b) % 32768
      [] op = LIT_mi -> (a - b) % 32768
      [] op = LIT_tm -> (a * b) % 32768

\* C6, as stated: (((op a) b) I), the continuation I third, returns the
\* literal a op b mod 2^15 and leaves no node allocated.
C6_AsStated ==
    (pc = "returned" /\ term \in {PrimTerm(op, a, b, LIT_I) : op \in ArithOps, a \in Numbers, b \in Numbers}) =>
        (curr = Expected(term[1][1][1][1], term[1][1][2][1], term[1][2][1]) /\ live = {})

\* C6: (((op I) a) b), the continuation I first and the operands second and
\* third, returns the literal a op b mod 2^15 for + - *, and no node is left
\* allocated for it.
C6_ContinuationFirst ==
    (/\ pc \in {"reduce", "returned"}
     /\ pc = "reduce" => fired # <<>>
     /\ term \in {PrimTerm(op, LIT_I, a, b) : op \in ArithOps, a \in Operators, b \in Operators}) =>
        /\ curr = Expected(term[1][1][1][1], term[1][2][1], term[2][1])
        /\ live = {}

\* 1 - 32767 wrapped to 2
C6_Witness ==
    /\ pc = "returned"
    /\ term = PrimTerm(LIT_mi, LIT_I, 1, 32767)
    /\ curr = 2
    /\ live = {}

\* the inputs ((K x) (Y I)) whose x is in weak head normal form
ConstWhnf == {t \in ConstTerms : IsWhnf(t[1][2])}

RECURSIVE SpineStuck(_, _)
SpineStuck(a, n) ==
    IF IS_LIT(a) THEN LIT_REQARGS(a) = 0 \/ n < LIT_REQARGS(a)
    ELSE func[NODE(a)] # LIT_I /\ SpineStuck(func[NODE(a)], n + 1)

GraphWhnf(a) == SpineStuck(a, 0)

heap == <<func, arg, refcount, app_freelist, current_apps, live>>

\* C8: a reduce entered with an atom in weak head normal form, no (I x) on
\* its spine, changes nothing in the heap, fires no rule, and returns that
\* atom; what reduce returns is such an atom, so a second reduce of it
\* returns it again.
C8_Idempotent ==
    /\ [][(pc = "reduce" /\ calls = <<>> /\ ~entry.stepped /\ GraphWhnf(entry.a)) =>
            /\ UNCHANGED heap
            /\ fired' = <<>>
            /\ ~entry'.stepped
            /\ pc' = "returned" => curr' = entry.a]_vars
    /\ [](pc = "returned" => GraphWhnf(curr))
    /\ []((pc = "returned" /\ entry.again) => (curr = entry.a /\ ~entry.stepped))

\* the second reduce returned the node the first had returned, in a graph
\* the first had rewritten
C8_Witness ==
    /\ pc = "returned"
    /\ entry.again
    /\ ~entry.stepped
    /\ ~IS_LIT(curr)
    /\ curr = entry.a
    /\ ~IsWhnf(Expand(term))

\* C11: the reducer never stores a spine entry outside
\* red_stack[0 .. MAX_STACK-1]: the spine never holds more than MAX_STACK
\* entries, and a spine that needs more ends the run.
C11_AsStated == Len(red_stack) <= MAX_STACK

\* C12: once main has released the atom reduce returned for a term over
\* I, K, S, B, C, F, J, Y and raw data, no node is live: current_apps is 0
\* and the whole pool is on the free list.
C12_NoLeak ==
    pc = "done" =>
        /\ current_apps = 0
        /\ live = {}
        /\ FreeSet = 0..(MAX_APPS - 1)

\* (Y K): the Y rule fired on a node with refcount 1 and built (K (Y K)),
\* which reduce returned and main released
C12_Witness ==
    /\ pc = "done"
    /\ term = App(Lit(LIT_Y), Lit(LIT_K))
    /\ entry.stepped
    /\ live = {}
    /\ current_apps = 0

\* C13 as stated: every reduce ends, by returning or by ending the run (the
\* pool exhausted, or the spine outgrown).
C13_AsStated == (pc = "reduce") ~> (pc \in {"returned", "fatal", "overflow"})

\* C13: a reduce that never ends fires rules for ever; and the reduce of
\* (Y I) never ends, with never more than two nodes live.
C13_EndsOrLoops ==
    /\ [](term = Divergent => (pc \in {"parse", "reduce"} /\ current_apps <= 2))
    /\ (<>[](pc = "reduce")) => []<>(fired # <<>>)

\* the reduce of (Y I) is back at the atom it was handed, Y having fired and
\* the indirection it built having been short-circuited
C13_Witness ==
    /\ term = Divergent
    /\ pc = "reduce"
    /\ entry.stepped
    /\ stack_len = 0
    /\ curr = entry.a
    /\ current_apps = 1

\* the rules that end in replace: all but Y
Replacing == fired' # <<>> /\ fired'.subtype # 5

\* the step gave up one reference to the node n
Released(n) ==
    IF refcount[NODE(n)] = 1 THEN NODE(n) \notin live' /\ NODE(n) \in FreeSet'
    ELSE NODE(n) \in live' /\ refcount'[NODE(n)] = refcount[NODE(n)] - 1

\* the step released the node n, which other nodes released with it may
\* have referred to as well
LostRef(n) ==
    \/ NODE(n) \notin live' /\ NODE(n) \in FreeSet'
    \/ refcount[NODE(n)] > 1 /\ NODE(n) \in live' /\ refcount'[NODE(n)] < refcount[NODE(n)]

\* C14: a rule that ends in replace(orig, reduced) leaves orig in one of two
\* ways.  With refcount 1 orig is reclaimed and is on the free list.
\* Otherwise orig stays live as (I reduced) with its refcount one lower, and
\* a reduct the rule allocated has refcount 2, for orig's arg and for the
\* reducer.  Either way the node that was orig's func has lost a reference
\* (unless it is also an argument, which the rule retained), and the
\* reducer goes on with reduced.
C14_ReplaceOutcomes ==
    [][Replacing =>
         LET orig == NODE(fired'.root)
             reduced == fired'.res
             fresh == ~IS_LIT(reduced) /\ NODE(reduced) \notin live
         IN /\ curr' = reduced
            /\ refcount[orig] = fired'.rc
            /\ fired'.rc >= 1
            /\ Released(fired'.root)
            /\ orig \in live' =>
                   /\ func'[orig] = LIT_I
                   /\ arg'[orig] = reduced
            /\ fresh => refcount'[NODE(reduced)] = (IF orig \in live' THEN 2 ELSE 1)
            /\ (~IS_LIT(func[orig]) /\ Count(fired'.args, func[orig]) = 0)
                   => LostRef(func[orig])]_vars

\* J fired on a redex that another node refers to: the redex is now the
\* indirection to the new node (y x), which has refcount 2
C14_Witness ==
    /\ pc = "reduce"
    /\ fired # <<>>
    /\ fired.subtype = 12
    /\ fired.rc >= 2
    /\ ~IS_LIT(fired.res)
    /\ NODE(fired.root) \in live
    /\ func[NODE(fired.root)] = LIT_I
    /\ arg[NODE(fired.root)] = fired.res
    /\ refcount[NODE(fired.res)] = 2
    /\ refcount[NODE(fired.root)] = fired.rc - 1

\* C15: when a binary primitive has fired, whatever its operands reduced to,
\* the heap is refcount-sound: the refcount of every live node is the number
\* of func and arg fields of live nodes that refer to it plus the reference
\* the reducer holds, so no live node is unreferenced and no referenced node
\* has been reclaimed.
C15_AsStated ==
    (pc = "reduce" /\ calls = <<>> /\ fired # <<>> /\ fired.subtype \in {7, 8, 9, 13, 14})
        => \A n \in live : refcount[n] = FieldRefs(n) + Count(Owned, INDEX_TO_ATOM(n))

\* C16 as stated: after the Y rule fired on curr = (Y f), the refcount of
\* curr is one more than before.
C16_AsStated ==
    (fired # <<>> /\ fired.subtype = 5) =>
        refcount[NODE(fired.root)] = fired.rc + 1

\* C16: after the Y rule fired on curr = (Y f), the refcount of curr is what
\* it was: the reference that the application above, or the caller of reduce,
\* held on curr is now the arg of the new node, which refers to curr.
C16_YKeepsRefcount ==
    (fired # <<>> /\ fired.subtype = 5) =>
        /\ NODE(fired.root) \in live
        /\ refcount[NODE(fired.root)] = fired.rc
        /\ arg[NODE(fired.res)] = fired.root
        /\ FieldRefs(NODE(fired.root)) = fired.rc

\* Y fired on a node with refcount 1, which the new node now refers to
C16_Witness ==
    /\ pc = "reduce"
    /\ fired # <<>>
    /\ fired.subtype = 5
    /\ fired.rc = 1
    /\ refcount[NODE(fired.root)] = 1
    /\ arg[NODE(fired.res)] = fired.root
    /\ stack_len = 0

\* C17: the Y rule, fired on curr = (Y f), returns a node that was not live
\* before, with func f and arg curr; f has one reference more; curr is still
\* (Y f), no indirection; and the application above on the spine, if there
\* is one, has the new node as its func.
C17_YNotInPlace ==
    [][(fired' # <<>> /\ fired'.subtype = 5) =>
         LET c == fired'.root
             f == arg[NODE(c)]
             new == fired'.res
         IN /\ ~IS_LIT(new)
            /\ NODE(new) \notin live
            /\ NODE(new) \in live'
            /\ func'[NODE(new)] = f
            /\ arg'[NODE(new)] = c
            /\ refcount'[NODE(new)] = 1
            /\ ~IS_LIT(f) => refcount'[NODE(f)] = refcount[NODE(f)] + 1
            /\ NODE(c) \in live'
            /\ func'[NODE(c)] = LIT_Y
            /\ arg'[NODE(c)] = f
            /\ curr' = new
            /\ stack_len' > 0 => func'[NODE(red_stack'[1])] = new
            /\ live' = live \cup {NODE(new)}]_vars

\* Y fired on (Y f) with f a node, below an application that now has the
\* new node as its func
C17_Witness ==
    /\ pc = "reduce"
    /\ fired # <<>>
    /\ fired.subtype = 5
    /\ stack_len > 0
    /\ ~IS_LIT(fired.args[1])
    /\ refcount[NODE(fired.args[1])] >= 2
    /\ func[NODE(fired.root)] = LIT_Y
    /\ func[NODE(fired.res)] = fired.args[1]
    /\ func[NODE(red_stack[1])] = fired.res

\* the inputs ((P x) y)
PutTerms == ({Lit(LIT_P)} \X TermsN(0, Conts)) \X Operands

\* the character putchar is given for the operand t: the low byte of the
\* literal t reduces to, '*' if it reduces to an application
PutChar(t) ==
    LET w == Whnf(t, MaxSteps)
    IN IF IsApp(w) THEN 42 ELSE LIT_SUBTYPE(w[1])

\* C18 as stated: on ((P x) y) with x and y numbers, the low byte of the
\* first argument x is written and the second argument y is the result.
C18_AsStated ==
    (pc = "returned" /\ term \in PutTerms
        /\ term[1][2][1] \in Numbers /\ term[2] \in TermsN(0, Numbers))
    => /\ output = <<LIT_SUBTYPE(term[1][2][1])>>
       /\ curr = term[2][1]

\* C18: on ((P k) x) the second argument x is reduced, the low byte of the
\* literal it reduces to is written ('*' if it reduces to an application),
\* the result is the first argument k, and the redex with its operand is
\* released.
C18_ContinuationFirst ==
    /\ (pc = "returned" /\ term \in PutTerms)
       => /\ output = <<PutChar(term[2])>>
          /\ curr = term[1][2][1]
          /\ live = {}
    /\ (fired # <<>> /\ fired.subtype = 6)
       => /\ fired.res = term[1][2][1]
          /\ RawTree(fired.args[1]) = Whnf(term[2], MaxSteps) \/ NODE(fired.args[1]) \notin live
          /\ output = <<IF IS_LIT(fired.args[1]) THEN LIT_SUBTYPE(fired.args[1]) ELSE 42>>

\* ((P 1) (I 32767)): the operand was reduced to 32767, its low byte 255
\* written, and 1 returned
C18_Witness ==
    /\ pc = "returned"
    /\ term = App(App(Lit(LIT_P), Lit(1)), App(Lit(LIT_I), Lit(32767)))
    /\ output = <<255>>
    /\ curr = 1
    /\ live = {}

\* the nodes c1, c2, .. of the chain of indirections that starts at the atom a
RECURSIVE ChainNodes(_)
ChainNodes(a) ==
    IF ~IS_LIT(a) /\ func[NODE(a)] = LIT_I THEN <<a>> \o ChainNodes(arg[NODE(a)])
    ELSE <<>>

\* the reducer is at a node (I x): its next step is the short-circuit
AtChain == pc = "reduce" /\ ~IS_LIT(curr) /\ func[NODE(curr)] = LIT_I

\* the first i nodes of the chain are all referred to from elsewhere too
SharedUpTo(chain, i) == \A j \in 1..i : refcount[NODE(chain[j])] >= 2

\* C19 as stated: after the short-circuit of the chain c1 .. cn that ends in
\* t, every chain node still live has arg = t.
C19_AsStated ==
    [][AtChain =>
         LET t == ChainEnd(Heap, curr)
             chain == ChainNodes(curr)
         IN \A i \in 1..Len(chain) :
                NODE(chain[i]) \in live' => arg'[NODE(chain[i])] = t]_vars

\* C19: the short-circuit of the chain c1 .. cn that ends in t leaves the
\* reducer at t, a literal or a node whose func is not I, and sets the func
\* of the top spine entry, if there is one, to t.  It walks the chain as far
\* as the nodes are shared: each of these stays live, as (I t), with one
\* reference less; the first node with refcount 1 is reclaimed and the walk
\* ends there, the nodes after it keeping their arg.
C19_PathCompression ==
    [][AtChain =>
         LET t == ChainEnd(Heap, curr)
             chain == ChainNodes(curr)
         IN /\ curr' = t
            /\ IS_LIT(t) \/ (NODE(t) \in live' /\ func'[NODE(t)] # LIT_I)
            /\ stack_len > 0 => func'[NODE(red_stack[1])] = t
            /\ UNCHANGED <<red_stack, stack_len>>
            /\ \A i \in 1..Len(chain) :
                  LET c == NODE(chain[i]) IN
                  /\ SharedUpTo(chain, i) =>
                        /\ c \in live'
                        /\ func'[c] = LIT_I
                        /\ arg'[c] = t
                        /\ refcount'[c] = refcount[c] - 1
                  /\ (SharedUpTo(chain, i - 1) /\ refcount[c] = 1) => c \notin live'
                  /\ (~SharedUpTo(chain, i - 1) /\ c \in live') => arg'[c] = arg[c]]_vars

\* (Y (I (I a))): after Y fired, the chain below the new node, whose first
\* node the redex shares, was short-circuited: that node is now (I a), the
\* second was reclaimed, and the new node's func is a
C19_Witness ==
    /\ pc = "reduce"
    /\ term = App(Lit(LIT_Y), App(Lit(LIT_I), App(Lit(LIT_I), Lit(97))))
    /\ curr = 97
    /\ stack_len = 1
    /\ func[NODE(red_stack[1])] = 97
    /\ current_apps = 3
    /\ \E n \in live : func[n] = LIT_I /\ arg[n] = 97 /\ arg[NODE(red_stack[1])] # INDEX_TO_ATOM(n)

\* the rules that call no reduce: I, K, S, B, C, Y, F, J
PureRules == {0, 1, 2, 3, 4, 5, 11, 12}

\* C20: one firing of I, K, F, J, S, B, C or Y changes the func or arg of a
\* node that is live before and after it only at the redex root, which
\* becomes the indirection to the result, and at the spine entry directly
\* above the redex, whose func becomes the result; every other such node,
\* so every node below an argument of the redex, keeps its func and arg.
C20_Frame ==
    [][(fired' # <<>> /\ fired'.subtype \in PureRules) =>
         LET root == NODE(fired'.root)
         IN \A n \in live \cap live' :
              IF n = root
              THEN IF fired'.subtype = 5
                   THEN func'[n] = func[n] /\ arg'[n] = arg[n]
                   ELSE func'[n] = LIT_I /\ arg'[n] = fired'.res
              ELSE IF stack_len' > 0 /\ n = NODE(red_stack'[1])
              THEN func'[n] = fired'.res /\ arg'[n] = arg[n]
              ELSE func'[n] = func[n] /\ arg'[n] = arg[n]]_vars

\* S fired on (((S f) I) x) with x a redex: x is live, shared by both halves
\* of the result, and still the redex the parser built
C20_Witness ==
    /\ pc = "reduce"
    /\ fired # <<>>
    /\ fired.subtype = 2
    /\ IsApp(term)
    /\ IsApp(term[2])
    /\ ~IS_LIT(fired.args[1])
    /\ NODE(fired.args[1]) \in live
    /\ refcount[NODE(fired.args[1])] = 2
    /\ ~GraphWhnf(fired.args[1])
    /\ RawTree(fired.args[1]) = term[2]

\* ---------------------------------------------------------------- input
\* what getchar() returns: a character, the largest one, or EOF
GetcharOutcomes == {97, 255, 0 - 1}

\* atom result = LIT_TO_ATOM(getchar()): the int converted to the 16-bit atom
GetcharAtom(c) == c % 65536

\* atom arg0 = NODE_ARG(curr); atom result = LIT_TO_ATOM(getchar());
\* return replace(curr, alloc_app(copy_atom(arg0), result));
red_getchar(h, rs, c, ch) ==
    LET arg0 == h.arg[NODE(c)]
        r == alloc_app(copy_atom(h, arg0), arg0, GetcharAtom(ch))
    IN replace(r.h, c, r.a)

\* The rule for G.  When the atom it stored is no literal, that atom refers
\* to a slot outside the pool and whatever reads or releases it next is
\* undefined: the run is followed no further ("wild").
FireG ==
    /\ Firing(15)
    /\ \E ch \in GetcharOutcomes :
         LET r == red_getchar(Heap, red_stack, Root, ch)
             info == [subtype |-> 15, root |-> Root, args |-> <<arg[NODE(Root)]>>,
                      res |-> r.a, rc |-> refcount[NODE(Root)]]
         IN IF r.h.fatal \/ IS_LIT(GetcharAtom(ch))
            THEN Fired(r, curr, red_stack, stack_len, info)
            ELSE /\ pc' = "wild"
                 /\ SetHeap(r.h)
                 /\ curr' = r.a
                 /\ fired' = info
                 /\ entry' = [entry EXCEPT !.stepped = TRUE]
                 /\ UNCHANGED <<red_stack, stack_len>>
    /\ ret' = <<>>
    /\ UNCHANGED <<calls, other_lit, rs_entry, output>>
    /\ UnchangedParse

\* the inputs that read: (G k) and ((G k) x)
GetTerms ==
    ({Lit(LIT_G)} \X TermsN(0, PureLits))
    \cup (({Lit(LIT_G)} \X TermsN(0, PureLits)) \X TermsN(0, PureLits))

InitIn ==
    /\ term \in PureTerms \cup GetTerms
    /\ InitHeap
    /\ InitMain

NextIn ==
    \/ Next
    \/ FireG

SpecIn == InitIn /\ [][NextIn]_vars

\* C21: after G fired on (G k) the result is the application (k c) with c a
\* literal, whatever getchar returned.
C21_AsStated ==
    (fired # <<>> /\ fired.subtype = 15) =>
        /\ ~IS_LIT(fired.res)
        /\ func[NODE(fired.res)] = fired.args[1]
        /\ IS_LIT(arg[NODE(fired.res)])

\* ---------------------------------------------------------------- division
\* red_div: literal rhs_lit = eval_two_lits(curr);
\* return builtin_2c_result(LIT_TO_ATOM((other_lit/rhs_lit) & 0x7fff));
FireDiv ==
    /\ Firing(10)
    /\ Call("lhs", arg[NODE(red_stack[2])])

\* what other_lit / 0 leaves in the result when the division does not trap
DivZeroValues == {0, 32767}

\* The operands are unsigned shorts promoted to int.  A division by 0 is
\* undefined: it traps ("trapped"), or it yields some value.
ReturnDiv ==
    /\ Returning("rhs")
    /\ LIT_SUBTYPE(Head(calls).lit) = 10
    /\ LET f == Head(calls)
           h == eval_two_lits_end(Heap, f.root, f.reduced_lhs)
           rhs_lit == LitOrZero(Result)
           info == [subtype |-> 10, root |-> f.root,
                    args |-> <<other_lit, rhs_lit, h.arg[NODE(Popped[1])]>>,
                    res |-> NOT_REDUCED, rc |-> refcount[NODE(f.root)]]
       IN \/ /\ rhs_lit = 0
             /\ pc' = "trapped"
             /\ SetHeap(h)
             /\ fired' = info
             /\ red_stack' = Popped
             /\ UNCHANGED <<curr, stack_len, calls, rs_entry, entry>>
          \/ \E result \in (IF rhs_lit = 0 THEN DivZeroValues
                             ELSE {(other_lit \div rhs_lit) % 32768}) :
               LET r == builtin_2c_result(h, Popped, result)
               IN /\ Fired(r, f.lit, Popped, f.stack_len, [info EXCEPT !.res = r.a])
                  /\ IF r.h.fatal THEN UNCHANGED <<calls, rs_entry>>
                     ELSE calls' = Tail(calls) /\ rs_entry' = f.rs_entry
    /\ ret' = <<rs_entry, Popped, stack_len>>
    /\ UNCHANGED <<other_lit, output>>
    /\ UnchangedParse

\* The inputs that divide: (((/ k) x) y) with x and y a literal or one
\* application over 0, 1, 32767, I and K.  No rule but / can fire on them,
\* so the steps of the program on these inputs are the ones of NextDiv.
DivOperands == Terms(1, {0, LIT_I, LIT_K} \cup Numbers)
DivTerms == ((({Lit(LIT_dv)} \X TermsN(0, Conts)) \X DivOperands) \X DivOperands)

InitDiv ==
    /\ term \in DivTerms
    /\ InitHeap
    /\ InitMain

NextDiv ==
    \/ ReadAt
    \/ ReadLit
    \/ ReadApp
    \/ StartReduce
    \/ Down
    \/ IChain
    \/ FireDiv
    \/ ReturnLhs
    \/ ReturnDiv
    \/ Return
    \/ Release

SpecDiv == InitDiv /\ [][NextDiv]_vars /\ WF_vars(NextDiv)

\* the division has just executed
Divided == fired # <<>> /\ fired.subtype = 10

\* the divisor the operand y of (((/ k) x) y) stands for: the literal it
\* reduces to, 0 if it reduces to an application
DivisorOf(t) ==
    LET w == Whnf(t[2], MaxSteps)
    IN IF IsApp(w) THEN 0 ELSE w[1]

\* C22: red_div divides by whatever its second operand gave, the literal it
\* reduced to or 0 if it reduced to no literal, without testing it: on every
\* input whose divisor is 0 in either way the division executes with
\* divisor 0.
C22_Unguarded ==
    /\ [](Divided => fired.args[2] = DivisorOf(term))
    /\ (pc = "parse" /\ DivisorOf(term) = 0) ~> (Divided /\ fired.args[2] = 0)

\* the division executed with divisor 0 for an operand that reduced to an
\* application, here trapping
C22_Witness ==
    /\ Divided
    /\ pc = "trapped"
    /\ fired.args[2] = 0
    /\ IsApp(Whnf(term[2], MaxSteps))

\* ---------------------------------------------------------------- numbers
\* the 16 literals that stand for the entries of reducers[]
CombinatorCodes ==
    {LIT_I, LIT_K, LIT_S, LIT_B, LIT_C, LIT_Y, LIT_P, LIT_pl, LIT_mi, LIT_tm, LIT_dv,
     LIT_F, LIT_J, LIT_eq, LIT_lt, LIT_G}

\* the reducer is about to call (reducers[subtype])(curr)
Dispatching ==
    /\ Reducing
    /\ IS_LIT(curr)
    /\ LIT_REQARGS(curr) # 0
    /\ LIT_REQARGS(curr) <= stack_len

\* subtype = LIT_SUBTYPE(curr); curr = (reducers[subtype])(curr); with a
\* subtype of 16 or more the call goes through whatever lies behind the
\* table, which is undefined: the run is followed no further ("wild").
FireOutside ==
    /\ Dispatching
    /\ LIT_SUBTYPE(curr) >= 16
    /\ pc' = "wild"
    /\ fired' = <<>>
    /\ ret' = <<>>
    /\ UNCHANGED <<red_stack, curr, stack_len, calls, other_lit, output, rs_entry, entry>>
    /\ UnchangedParse
    /\ UnchangedHeap

\* Inputs with decimal integers: read_atom returns num & 0x7fff, so 256 is
\* the atom of I, 257 has high byte 1 and low byte 1, 272 and 528 have low
\* byte 16.  A number stands at the head of one or two arguments, or is the
\* sum 200 + 72 applied to an argument.
NumHeads == {255, 256, 257, 272, 528}
NumArgs == {1, 97}
NumTerms ==
    (TermsN(0, NumHeads) \X TermsN(0, NumArgs))
    \cup ((TermsN(0, NumHeads) \X TermsN(0, NumArgs)) \X TermsN(0, NumArgs))
    \cup ({PrimTerm(LIT_pl, LIT_I, 200, 72), PrimTerm(LIT_pl, LIT_I, 1, 254)}
              \X TermsN(0, NumArgs))

InitNum ==
    /\ term \in NumTerms
    /\ InitHeap
    /\ InitMain

\* the steps of the program on these inputs
NextNum ==
    \/ ReadAt
    \/ ReadLit
    \/ ReadApp
    \/ StartReduce
    \/ Down
    \/ IChain
    \/ FireK
    \/ FirePlus
    \/ ReturnLhs
    \/ ReturnRhs
    \/ FireOutside
    \/ Return
    \/ Release

SpecNum == InitNum /\ [][NextNum]_vars

\* C23: whenever the reducer calls a rule, the head literal is one of the 16
\* combinator codes; a number at the head of arguments calls none.
C23_AsStated == Dispatching => curr \in CombinatorCodes

\* ---------------------------------------------------------------- TINY_VERSION
\* The build with -DTINY_VERSION: the pool has 525 nodes and the refcount
\* field is a uint8_t, so ++ and -- on it are taken modulo 256.
TINY_MAX_APPS == 525
TINY_REFCOUNTS == 256

\* alloc_app of this build
alloc_app_tiny(heap0, func0, arg0) ==
    The({LET next_app == h.app_freelist IN
         IF h.fatal THEN [h |-> h, a |-> NOT_REDUCED]
         ELSE IF next_app = INDEX_TO_ATOM(TINY_MAX_APPS)
         THEN [h |-> [h EXCEPT !.fatal = TRUE], a |-> NOT_REDUCED]
         ELSE [h |-> [h EXCEPT !.app_freelist = h.func[NODE(next_app)],
                               !.func[NODE(next_app)] = f,
                               !.arg[NODE(next_app)] = a,
                               !.refcount[NODE(next_app)] = 1,
                               !.current_apps = (h.current_apps + 1) % 65536,
                               !.live = h.live \cup {NODE(next_app)}],
               a |-> next_app]
         : h \in {heap0}, f \in {func0}, a \in {arg0}})

\* free_app_all of this build: --NODE_REFCOUNT(app) on a uint8_t
RECURSIVE free_app_all_tiny(_, _)
free_app_all_tiny(heap0, app0) ==
    The({IF h.fatal \/ IS_LIT(app) THEN [h |-> h, freed |-> FALSE]
         ELSE The({IF h1.refcount[NODE(app)] # 0 THEN [h |-> h1, freed |-> FALSE]
                   ELSE The({[h |-> free_app(free_app_all_tiny(h2, h2.func[NODE(app)]).h, app),
                              freed |-> TRUE]
                             : h2 \in {free_app_all_tiny(h1, h1.arg[NODE(app)]).h}})
                   : h1 \in {[h EXCEPT !.refcount[NODE(app)] =
                                  (h.refcount[NODE(app)] + TINY_REFCOUNTS - 1) % TINY_REFCOUNTS]}})
         : h \in {heap0}, app \in {app0}})

\* copy_atom of this build: ++NODE_REFCOUNT(a) on a uint8_t
copy_atom_tiny(heap0, a0) ==
    The({IF h.fatal \/ IS_LIT(a) THEN h
         ELSE [h EXCEPT !.refcount[NODE(a)] = (h.refcount[NODE(a)] + 1) % TINY_REFCOUNTS]
         : h \in {heap0}, a \in {a0}})

\* init_apps of this build
InitHeapTiny ==
    /\ func = [i \in 0..TINY_MAX_APPS |->
                  IF i < TINY_MAX_APPS THEN INDEX_TO_ATOM(i + 1) ELSE 0]
    /\ arg = [i \in 0..TINY_MAX_APPS |-> 0]
    /\ refcount = [i \in 0..TINY_MAX_APPS |-> 0]
    /\ app_freelist = INDEX_TO_ATOM(0)
    /\ current_apps = 0
    /\ live = {}

\* The inputs: one Church numeral #N, for the N on both sides of the largest
\* value of the field.
TinyChurch == {0, 1, 2, 254, 255, 256}
TinyTerms == TermsN(0, {ChurchTok(n) : n \in TinyChurch})

InitTiny ==
    /\ term \in TinyTerms
    /\ InitHeapTiny
    /\ InitMain

\* case '#' of read_atom, one statement at a time.  While it runs pstack holds
\* its locals: <<single_succ, val, i>>; n is the number of the token.
InChurch == pc = "parse" /\ input # <<>> /\ Len(pstack) = 3

\* single_succ = alloc_app(S, B); val = alloc_app(K, I); i = 0
ChurchBegin ==
    /\ Reading
    /\ IsChurchTok(Head(input))
    /\ pstack = <<>>
    /\ LET r1 == alloc_app_tiny(Heap, LIT_S, LIT_B)
           r2 == alloc_app_tiny(r1.h, LIT_K, LIT_I)
       IN IF r2.h.fatal THEN Fatal(r2.h)
          ELSE /\ SetHeap(r2.h)
               /\ pstack' = <<r1.a, r2.a, 0>>
               /\ UNCHANGED <<pc, input, term>>
               /\ UnchangedReduce

\* val = alloc_app(copy_atom(single_succ), val); ++i
ChurchStep ==
    /\ InChurch
    /\ pstack[3] < ChurchOf(Head(input))
    /\ LET r == alloc_app_tiny(copy_atom_tiny(Heap, pstack[1]), pstack[1], pstack[2])
       IN IF r.h.fatal THEN Fatal(r.h)
          ELSE /\ SetHeap(r.h)
               /\ pstack' = <<pstack[1], r.a, pstack[3] + 1>>
               /\ UNCHANGED <<pc, input, term>>
               /\ UnchangedReduce

\* free_app_all(single_succ); return val
ChurchEnd ==
    /\ InChurch
    /\ pstack[3] >= ChurchOf(Head(input))
    /\ SetHeap(free_app_all_tiny(Heap, pstack[1]).h)
    /\ pstack' = <<pstack[2]>>
    /\ input' = Tail(input)
    /\ UNCHANGED <<pc, term>>
    /\ UnchangedReduce

NextTiny == ChurchBegin \/ ChurchStep \/ ChurchEnd

SpecTiny == InitTiny /\ [][NextTiny]_vars

\* the references to node n: the fields of nodes in use that hold it, and
\* the locals of read_atom that hold it
References(n) ==
    Cardinality({m \in live : func[m] = INDEX_TO_ATOM(n)})
    + Cardinality({m \in live : arg[m] = INDEX_TO_ATOM(n)})
    + Cardinality({i \in DOMAIN pstack : i <= 2 /\ pstack[i] = INDEX_TO_ATOM(n)})

\* C24: the references to one node never number more than the largest value
\* of the refcount field (255 in this build), so the count of a node in use
\* is the number of its references, the Church numerals #N included.
C24_AsStated ==
    \A n \in live : References(n) < TINY_REFCOUNTS /\ refcount[n] = References(n)

\* ---------------------------------------------------------------- the spine
\* the entries the running activation of reduce has pushed, top first
SpineEntries == SubSeq(red_stack, 1, stack_len)

\* the i-th node down the func fields from the application c (c is the first)
RECURSIVE FuncChain(_, _)
FuncChain(c, i) == IF i <= 1 \/ IS_LIT(c) THEN c ELSE FuncChain(func[NODE(c)], i - 1)

SpineConsistent ==
    /\ \A i \in 1..stack_len :
          /\ ~IS_LIT(red_stack[i])
          /\ NODE(red_stack[i]) \in live
          /\ func[NODE(red_stack[i])] = (IF i = 1 THEN curr ELSE red_stack[i - 1])
    /\ Dispatching =>
          \A i \in 1..LIT_REQARGS(curr) :
              red_stack[i] = FuncChain(Root, LIT_REQARGS(curr) - i + 1)

\* C25: between the steps of one activation of reduce every entry it pushed
\* is a node in use, the func of the top entry is the current atom and the
\* func of each deeper entry is the entry above it; so when a rule of arity
\* r is about to fire, the top r entries are the applications of the redex,
\* down the func fields from its root, entry r.
C25_SpineConsistent == Reducing => SpineConsistent

\* a rule has fired under a spine of two entries or more, and the next rule
\* is about to fire on what it left
C25_Witness ==
    /\ Reducing
    /\ fired # <<>>
    /\ stack_len >= 2
    /\ Dispatching

====
